---------------------------- MODULE Spec2Model ----------------------------
(***************************************************************************)
(* A model of python_databases.elastic_search_infrastructure:              *)
(*   - the bulk document loader of class ElasticSearch (elastic_search.py) *)
(*   - the index management helpers of the same class                      *)
(*   - the connection classes and their retried connect                    *)
(*                                                                         *)
(* Python values are tagged records [t, v]: a str is the sequence of its   *)
(* characters, a list the sequence of its items.  Dictionaries are TLA+    *)
(* functions from keys to values.  Dictionaries are mutable objects, so    *)
(* they live in a heap and are referred to by address.                     *)
(*                                                                         *)
(* The search cluster and the client library are outside the repository:   *)
(* they are modelled by what the calls made by the code are documented to  *)
(* do, with the cluster's answers chosen nondeterministically.             *)
(***************************************************************************)
EXTENDS Integers, Sequences, FiniteSets, TLC

VARIABLES
    \* ---- bulk document loader (one ElasticSearch object and its caller)
    heap,          \* address -> dict contents
    self_doc,      \* self.doc: the address of the working document
    caller_list,   \* a list owned by the caller, passed to the public helpers
    pc,            \* where the running fill_elk_index_as_bulk call is
    args,          \* the arguments of the running/last fill_elk_index_as_bulk
    list_of_docs,  \* its local list_of_docs
    row_i,         \* number of records of data already processed
    chunk_i,       \* the loop variable i of fill_elk_index_as_bulk_chunk
    trace,         \* submissions and sleeps of the running/last call, in order
    log,           \* log records written by the running/last call
    last_op,       \* the public method called last
    result,        \* how it ended: "none", "returned", "raised"
    ncalls,        \* number of public calls made so far
    \* ---- index management
    cluster,       \* the set of indices that exist in the cluster
    cluster_before,\* the cluster when the last index operation was called
    idx_op,        \* the last index operation and its argument
    idx_result,    \* its result: "none", "true", "false", "returned", "raised"
    issued,        \* the client calls it issued, in order
    \* ---- connection
    es,            \* the ElasticSearchOnPrem / ElasticSearchCloud object
    conn,          \* the ElasticSearch*Connection object
    cpc,           \* where connect_to_elasticsearch is
    attempt_number,\* the retry decorator's attempt counter
    ctrace,        \* attempts and waits of the running/last connect, in order
    nconnects      \* number of connect calls made so far

loadVars == <<heap, self_doc, caller_list, pc, args, list_of_docs, row_i,
              chunk_i, trace, log, last_op, result, ncalls>>
idxVars  == <<cluster, cluster_before, idx_op, idx_result, issued>>
connVars == <<es, conn, cpc, attempt_number, ctrace, nconnects>>
vars     == <<loadVars, idxVars, connVars>>

\* ------------------------------------------------------------------ bounds
MaxRecords == 2     \* records in one data argument
MaxChunk   == 2     \* largest chunk_size argument
MaxCalls   == 2     \* public loader calls made by the caller
MaxConnects == 2    \* connect_to_elasticsearch calls on one object

\* ------------------------------------------------------------ Python values
None == [t |-> "NoneType", v |-> <<>>]
PyStr(s) == [t |-> "str", v |-> s]
PyList(items) == [t |-> "list", v |-> items]
PyDatetime == [t |-> "datetime", v |-> <<>>]
PyInt(n) == [t |-> "int", v |-> n]

\* bool(x) for the values used as conditions
Truthy(x) ==
    /\ x # None
    /\ ~(x.t \in {"str", "list"} /\ x.v = <<>>)
    /\ ~(x.t = "int" /\ x.v = 0)

EmptyDict == [k \in {} |-> None]
\* d[k] = v
DictSet(d, k, v) == [x \in DOMAIN d \cup {k} |-> IF x = k THEN v ELSE d[x]]

RECURSIVE Replace(_, _, _)
\* str.replace(old, new) for single characters
Replace(s, old, new) ==
    IF s = <<>> THEN <<>>
    ELSE <<IF Head(s) = old THEN new ELSE Head(s)>> \o Replace(Tail(s), old, new)

RECURSIVE Join(_, _)
\* sep.join(items) for a list of str
Join(sep, items) ==
    IF items = <<>> THEN <<>>
    ELSE IF Len(items) = 1 THEN Head(items).v
    ELSE Head(items).v \o sep \o Join(sep, Tail(items))

\* list(filter(lambda item: item is not None, value))
FilterNotNone(items) == SelectSeq(items, LAMBDA item : item # None)

\* all(type(item) is str for item in value)
AllStr(items) == \A i \in 1..Len(items) : items[i].t = "str"

\* ------------------------------------------------------------------- heap
\* the address of a newly created object: the smallest one not in use
NewAddr(h) ==
    CHOOSE a \in 1..(Cardinality(DOMAIN h) + 1) :
        a \notin DOMAIN h /\ \A b \in 1..(a - 1) : b \in DOMAIN h

\* {}: a new, empty dict
NewDict(h) == LET n == NewAddr(h) IN [heap |-> h @@ (n :> EmptyDict), addr |-> n]

\* reference counting: an object no reference reaches is freed
Sources(list) == {list[i].source : i \in 1..Len(list)}
Collect(h, roots) == [a \in (DOMAIN h \cap roots) |-> h[a]]

\* faulty variant of deepcopy: the reference itself is stored, not a copy
deepcopy_alias(h, a) == [heap |-> h, addr |-> a]

\* copy.deepcopy(doc): a new object with the same (immutable-valued) content
deepcopy(h, a) == LET n == NewAddr(h) IN [heap |-> h @@ (n :> h[a]), addr |-> n]

\* ------------------------------------------------- the working document
\* faulty variant of the username test: "if username is not None"
username_is_not_none(username) == username # None

\* "if username:" of add_basic_info
username_given(username) == Truthy(username)

\* add_basic_info, on the content d of self.doc
add_basic_info(d, doc_id, timestamp, date_and_time, username) ==
    LET d1 == DictSet(d, "doc_id", doc_id)
        d2 == DictSet(d1, "timestamp", timestamp)
        d3 == DictSet(d2, "date_str", PyStr(Replace(date_and_time.v, "-", "_")))
    IN  IF username_given(username) THEN DictSet(d3, "username", username) ELSE d3

\* add_list_values_as_str, on the content d of self.doc
add_list_values_as_str(d, value, column) ==
    IF value.t = "list" /\ AllStr(value.v)
    THEN LET filtered == FilterNotNone(value.v)
             d1 == DictSet(d, column, PyList(filtered))
         IN  DictSet(d1, column \o "_str", PyStr(Join(<<",", " ">>, filtered)))
    ELSE d

RECURSIVE copy_row(_, _)
\* "for custom_field, value in row.items()" of fill_elk_index_as_bulk
copy_row(d, items) ==
    IF items = <<>> THEN d
    ELSE LET custom_field == Head(items).col
             value == Head(items).val
         IN  copy_row(add_list_values_as_str(DictSet(d, custom_field, value),
                                             value, custom_field),
                      Tail(items))

\* "self.doc = {}" of fill_elk_index_as_bulk: self.doc is bound to a new dict
reset_doc(h) == NewDict(h)

\* fill_list_of_docs: the list with one more Bulk Request Item, and the heap
fill_list_of_docs(h, list, index_name, doc) ==
    LET c == deepcopy(h, doc)
    IN  [heap |-> c.heap,
         list |-> Append(list, [index |-> index_name, source |-> c.addr])]

\* ------------------------------------------------- the chunk submission
\* what the cluster answers for one document of a bulk request
Created     == [ok |-> TRUE,  status |-> 201, shards_failed |-> 0]
ShardFailed == [ok |-> TRUE,  status |-> 201, shards_failed |-> 1]
Rejected    == [ok |-> FALSE, status |-> 400, shards_failed |-> 0]
DocOutcomes == {Created, ShardFailed, Rejected}

\* helpers.streaming_bulk(client, actions, raise_on_error=...): one response
\* item per document; BulkIndexError when a document failed and raise_on_error
streaming_bulk(outcomes, raise_on_error) ==
    [raised |-> raise_on_error /\ \E i \in 1..Len(outcomes) : ~outcomes[i].ok,
     items  |-> outcomes]

\* helpers.bulk(client, actions): streaming_bulk with the library's default
\* raise_on_error=True, folded into (number of successes, list of errors)
bulk(outcomes) ==
    LET r == streaming_bulk(outcomes, TRUE)
    IN  [raised  |-> r.raised,
         success |-> Len(SelectSeq(r.items, LAMBDA it : it.ok)),
         failed  |-> SelectSeq(r.items, LAMBDA it : ~it.ok)]

\* set_list_of_docs for a list whose documents get the answers `outcomes`:
\* whether it raised, and the log records it wrote
set_list_of_docs(list, quick, outcomes) ==
    LET start  == <<"info: Start to report the documents to ELK">>
        finish == <<"info: Finish to report the documents to ELK">>
    IN  IF quick
        THEN LET r == streaming_bulk(outcomes, FALSE)
                 bad == SelectSeq(r.items,
                            LAMBDA it : it.status # 201 \/ it.shards_failed > 0)
             IN  [raised |-> r.raised,
                  log |-> IF r.raised THEN start
                          ELSE start \o [i \in 1..Len(bad) |-> "debug: Failed document"]
                                     \o finish]
        ELSE LET r == bulk(outcomes)
             IN  [raised |-> r.raised,
                  log |-> IF r.raised THEN start
                          ELSE IF r.success = Len(list)
                          THEN start \o <<"info: All documents were reported successfully">>
                                     \o finish
                          ELSE start \o <<"error: Not all documents were reported successfully">>
                                     \o finish]

Min(a, b) == IF a < b THEN a ELSE b

\* faulty variant of the slice: one item too many, list_of_docs[i:i + chunk_size + 1]
chunk_too_long(list, i, chunk_size) ==
    SubSeq(list, i + 1, Min(i + chunk_size + 1, Len(list)))

\* list_of_docs[i:i + chunk_size]
chunk_of(list, i, chunk_size) == SubSeq(list, i + 1, Min(i + chunk_size, Len(list)))

\* ------------------------------------------------------ the caller's inputs
a_b_None == PyList(<<PyStr(<<"a">>), PyStr(<<"b">>), None>>)
a_b      == PyList(<<PyStr(<<"a">>), PyStr(<<"b">>)>>)
Values   == {a_b_None, a_b, PyStr(<<"x">>)}
Columns  == {"tags", "username"}

\* records (dicts in insertion order) the caller may pass in data
Rows ==
    { <<[col |-> "tags", val |-> a_b_None]>>,
      <<[col |-> "username", val |-> PyStr(<<"x">>)], [col |-> "labels", val |-> a_b]>> }

RECURSIVE SeqsUpTo(_, _)
\* the sequences over S of length at most n
SeqsUpTo(S, n) ==
    IF n = 0 THEN {<<>>}
    ELSE LET shorter == SeqsUpTo(S, n - 1)
         IN  shorter \cup {Append(q, x) : q \in shorter, x \in S}

DocIds     == {PyStr(<<"D", "1">>), PyStr(<<"D", "2">>)}
Usernames  == {None, PyStr(<<>>), PyStr(<<"u">>)}
IndexNames == {"logs"}
DateAndTime == PyStr(<<"2", "0", "2", "4", "-", "0", "1", "-", "0", "5">>)

NoArgs == [data |-> <<>>, doc_id |-> None, doc_index_name |-> "", timestamp |-> None,
           date_and_time |-> None, username |-> None, chunk_size |-> 0,
           time_sleep |-> 0]

BulkArgs ==
    [data : SeqsUpTo(Rows, MaxRecords), doc_id : {PyStr(<<"D", "1">>)},
     doc_index_name : IndexNames, timestamp : {PyDatetime},
     date_and_time : {DateAndTime}, username : Usernames,
     chunk_size : 1..MaxChunk, time_sleep : {1}]

Submit(chunk) == [ev |-> "submit", chunk |-> chunk, secs |-> 0]
Sleep(secs) == [ev |-> "sleep", chunk |-> <<>>, secs |-> secs]

\* the objects some reference still reaches, of heap h
Live(h, doc, own, local) == Collect(h, {doc} \cup Sources(own) \cup Sources(local))

\* ----------------------------------------------------------- loader: Init
\* ElasticSearch.__init__: self.doc = {}; the caller starts with an empty list
InitLoad ==
    /\ heap = (1 :> EmptyDict)
    /\ self_doc = 1
    /\ caller_list = <<>>
    /\ pc = "idle"
    /\ args = NoArgs
    /\ list_of_docs = <<>>
    /\ row_i = 0
    /\ chunk_i = 0
    /\ trace = <<>>
    /\ log = <<>>
    /\ last_op = "none"
    /\ result = "none"
    /\ ncalls = 0

\* a public method can be called: no call is running, and the budget allows
CanCall == pc = "idle" /\ ncalls < MaxCalls

\* the caller calls add_basic_info
CallAddBasicInfo ==
    /\ CanCall
    /\ \E doc_id \in DocIds, username \in Usernames :
         heap' = [heap EXCEPT ![self_doc] =
                     add_basic_info(@, doc_id, PyDatetime, DateAndTime, username)]
    /\ last_op' = "add_basic_info"
    /\ result' = "returned"
    /\ ncalls' = ncalls + 1
    /\ trace' = <<>> /\ log' = <<>>
    /\ UNCHANGED <<self_doc, caller_list, pc, args, list_of_docs, row_i, chunk_i>>
    /\ UNCHANGED <<idxVars, connVars>>

\* the caller calls add_list_values_as_str
CallAddListValuesAsStr ==
    /\ CanCall
    /\ \E value \in Values, column \in Columns :
         heap' = [heap EXCEPT ![self_doc] = add_list_values_as_str(@, value, column)]
    /\ last_op' = "add_list_values_as_str"
    /\ result' = "returned"
    /\ ncalls' = ncalls + 1
    /\ trace' = <<>> /\ log' = <<>>
    /\ UNCHANGED <<self_doc, caller_list, pc, args, list_of_docs, row_i, chunk_i>>
    /\ UNCHANGED <<idxVars, connVars>>

\* the caller calls fill_list_of_docs(caller_list, index_name, self.doc)
CallFillListOfDocs ==
    /\ CanCall
    /\ \E index_name \in IndexNames :
         LET r == fill_list_of_docs(heap, caller_list, index_name, self_doc)
         IN  /\ caller_list' = r.list
             /\ heap' = Live(r.heap, self_doc, r.list, list_of_docs)
    /\ last_op' = "fill_list_of_docs"
    /\ result' = "returned"
    /\ ncalls' = ncalls + 1
    /\ trace' = <<>> /\ log' = <<>>
    /\ UNCHANGED <<self_doc, pc, args, list_of_docs, row_i, chunk_i>>
    /\ UNCHANGED <<idxVars, connVars>>

\* the caller calls set_list_of_docs(caller_list, quick=...)
CallSetListOfDocs ==
    /\ CanCall
    /\ \E quick \in BOOLEAN, outcomes \in [1..Len(caller_list) -> DocOutcomes] :
         LET r == set_list_of_docs(caller_list, quick, outcomes)
         IN  /\ result' = IF r.raised THEN "raised" ELSE "returned"
             /\ log' = r.log
             /\ last_op' = IF quick THEN "set_list_of_docs quick"
                           ELSE "set_list_of_docs"
    /\ trace' = <<Submit(caller_list)>>
    /\ ncalls' = ncalls + 1
    /\ UNCHANGED <<heap, self_doc, caller_list, pc, args, list_of_docs, row_i, chunk_i>>
    /\ UNCHANGED <<idxVars, connVars>>

\* the caller calls fill_elk_index_as_bulk: list_of_docs = []
CallFillElkIndexAsBulk ==
    /\ CanCall
    /\ \E a \in BulkArgs : args' = a
    /\ list_of_docs' = <<>>
    /\ heap' = Live(heap, self_doc, caller_list, <<>>)
    /\ pc' = "rows"
    /\ row_i' = 0
    /\ chunk_i' = 0
    /\ trace' = <<>> /\ log' = <<>>
    /\ last_op' = "fill_elk_index_as_bulk"
    /\ result' = "none"
    /\ ncalls' = ncalls + 1
    /\ UNCHANGED <<self_doc, caller_list>>
    /\ UNCHANGED <<idxVars, connVars>>

\* one iteration of "for index, row in enumerate(data)"
BulkRow ==
    /\ pc = "rows"
    /\ row_i < Len(args.data)
    /\ LET row == args.data[row_i + 1]
           fresh == reset_doc(heap)
           d == copy_row(add_basic_info(fresh.heap[fresh.addr], args.doc_id,
                                        args.timestamp, args.date_and_time,
                                        args.username),
                         row)
           h1 == [fresh.heap EXCEPT ![fresh.addr] = d]
           r == fill_list_of_docs(h1, list_of_docs, args.doc_index_name, fresh.addr)
       IN  /\ self_doc' = fresh.addr
           /\ list_of_docs' = r.list
           /\ heap' = Live(r.heap, fresh.addr, caller_list, r.list)
    /\ row_i' = row_i + 1
    /\ UNCHANGED <<caller_list, pc, args, chunk_i, trace, log, last_op, result, ncalls>>
    /\ UNCHANGED <<idxVars, connVars>>

\* the loop over data is exhausted: fill_elk_index_as_bulk_chunk is called
BulkRowsDone ==
    /\ pc = "rows"
    /\ row_i = Len(args.data)
    /\ pc' = "chunks"
    /\ chunk_i' = 0
    /\ UNCHANGED <<heap, self_doc, caller_list, args, list_of_docs, row_i, trace,
                   log, last_op, result, ncalls>>
    /\ UNCHANGED <<idxVars, connVars>>

\* one iteration of "for i in range(0, len(list_of_docs), chunk_size)"
BulkChunk ==
    /\ pc = "chunks"
    /\ chunk_i < Len(list_of_docs)
    /\ LET chunk == chunk_of(list_of_docs, chunk_i, args.chunk_size)
       IN  \E outcomes \in [1..Len(chunk) -> DocOutcomes] :
             LET r == set_list_of_docs(chunk, TRUE, outcomes)
             IN  /\ trace' = Append(trace, Submit(chunk))
                 /\ log' = log \o r.log
                 /\ IF r.raised
                    THEN pc' = "idle" /\ result' = "raised" /\ chunk_i' = chunk_i
                    ELSE pc' = pc /\ result' = result
                         /\ chunk_i' = chunk_i + args.chunk_size
    /\ UNCHANGED <<heap, self_doc, caller_list, args, list_of_docs, row_i, last_op,
                   ncalls>>
    /\ UNCHANGED <<idxVars, connVars>>

\* the range is exhausted: time.sleep(time_sleep), and both methods return
BulkSleep ==
    /\ pc = "chunks"
    /\ chunk_i >= Len(list_of_docs)
    /\ trace' = Append(trace, Sleep(args.time_sleep))
    /\ pc' = "idle"
    /\ result' = "returned"
    /\ UNCHANGED <<heap, self_doc, caller_list, args, list_of_docs, row_i, chunk_i,
                   log, last_op, ncalls>>
    /\ UNCHANGED <<idxVars, connVars>>

\* -------------------------------------------------------- index management
Indices == {"logs", "metrics", "tmp", "old"}

Exists(index) == [api |-> "exists", index |-> index]
Delete(index) == [api |-> "delete", index |-> index]

\* check_if_index_exists: elk_client.indices.exists(index=index)
check_if_index_exists(c, index) ==
    [ret |-> index \in c, raised |-> FALSE, cluster |-> c, issued |-> <<Exists(index)>>]

\* delete_index: elk_client.indices.delete(index=index), which fails with
\* NotFoundError for an index that does not exist
delete_index(c, index) ==
    [ret |-> FALSE, raised |-> index \notin c, cluster |-> c \ {index},
     issued |-> <<Delete(index)>>]

\* faulty variant: the existence check is made but its answer is not used
delete_without_check(c, index) ==
    LET e == check_if_index_exists(c, index)
        d == delete_index(e.cluster, index)
    IN  [ret |-> TRUE, raised |-> d.raised, cluster |-> d.cluster,
         issued |-> e.issued \o d.issued]

\* check_if_index_exists_and_delete_if_exists
check_if_index_exists_and_delete_if_exists(c, index) ==
    LET e == check_if_index_exists(c, index)
    IN  IF e.ret
        THEN LET d == delete_index(e.cluster, index)
             IN  [ret |-> TRUE, raised |-> d.raised, cluster |-> d.cluster,
                  issued |-> e.issued \o d.issued]
        ELSE [ret |-> FALSE, raised |-> FALSE, cluster |-> e.cluster,
              issued |-> e.issued]

NoIdxOp == [name |-> "none", index |-> ""]

\* any set of indices may exist when the helpers are first used
InitIdx ==
    /\ cluster \in SUBSET Indices
    /\ cluster_before = cluster
    /\ idx_op = NoIdxOp
    /\ idx_result = "none"
    /\ issued = <<>>

\* the effect of an index helper that answered r
IdxDone(name, index, r) ==
    /\ cluster_before' = cluster
    /\ cluster' = r.cluster
    /\ idx_op' = [name |-> name, index |-> index]
    /\ issued' = r.issued
    /\ idx_result' = IF r.raised THEN "raised" ELSE IF r.ret THEN "true" ELSE "false"

CallCheckIfIndexExists ==
    /\ \E index \in Indices :
         IdxDone("check_if_index_exists", index, check_if_index_exists(cluster, index))
    /\ UNCHANGED <<loadVars, connVars>>

CallDeleteIndex ==
    /\ \E index \in Indices :
         LET r == delete_index(cluster, index)
         IN  /\ cluster_before' = cluster
             /\ cluster' = r.cluster
             /\ idx_op' = [name |-> "delete_index", index |-> index]
             /\ issued' = r.issued
             /\ idx_result' = IF r.raised THEN "raised" ELSE "returned"
    /\ UNCHANGED <<loadVars, connVars>>

CallCheckIfIndexExistsAndDeleteIfExists ==
    /\ \E index \in Indices :
         IdxDone("check_if_index_exists_and_delete_if_exists", index,
                 check_if_index_exists_and_delete_if_exists(cluster, index))
    /\ UNCHANGED <<loadVars, connVars>>

\* between two helper calls another client of the cluster creates an index
OtherClientCreatesIndex ==
    /\ \E index \in Indices \ cluster : cluster' = cluster \cup {index}
    /\ cluster_before' = cluster
    /\ idx_op' = [name |-> "other client", index |-> ""]
    /\ idx_result' = "none"
    /\ issued' = <<>>
    /\ UNCHANGED <<loadVars, connVars>>

\* --------------------------------------------------------------- connection
StopMaxAttemptNumber == 3
WaitFixed == 180000

Digit(d) ==
    CASE d = 0 -> "0" [] d = 1 -> "1" [] d = 2 -> "2" [] d = 3 -> "3" [] d = 4 -> "4"
      [] d = 5 -> "5" [] d = 6 -> "6" [] d = 7 -> "7" [] d = 8 -> "8" [] d = 9 -> "9"

RECURSIVE IntToStr(_)
IntToStr(n) == IF n < 10 THEN Digit(n) ELSE IntToStr(n \div 10) \o Digit(n % 10)

\* f'{x}' for an Optional[int]
Format(x) == IF x = None THEN "None" ELSE IntToStr(x.v)

\* elastic_search.py: the URL built by ElasticSearch.__init__
ElasticSearch_url(protocol, elk_hostname, elasticsearch_port) ==
    IF ~Truthy(elasticsearch_port)
    THEN protocol \o "://" \o elk_hostname
    ELSE protocol \o "://" \o elk_hostname \o ":" \o Format(elasticsearch_port)

\* elastic_serach_connection.py: the URL built by ElasticSearchConnection.__init__
ElasticSearchConnection_url(protocol, elk_hostname, elasticsearch_port) ==
    IF Truthy(elasticsearch_port)
    THEN protocol \o "://" \o elk_hostname
    ELSE protocol \o "://" \o elk_hostname \o ":" \o Format(elasticsearch_port)

NoClient == [target |-> "", auth |-> FALSE, timeout |-> 0, ping |-> "none"]

NoCtorArgs == [protocol |-> "", elk_hostname |-> "", elasticsearch_port |-> None,
               username |-> None, password |-> None]

\* the constructor arguments: no port or a usable TCP port, with or without
\* credentials
CtorArgs ==
    [protocol : {"http", "https"}, elk_hostname : {"elk"},
     elasticsearch_port : {None, PyInt(9200), PyInt(5602)},
     username : {None, PyStr(<<"u">>)}, password : {None, PyStr(<<"p">>)}]

NoObject == [cls |-> "none", a |-> NoCtorArgs, elasticsearch_url |-> "",
             elk_client |-> NoClient]

\* ElasticSearchOnPrem(...) / ElasticSearchCloud(...): elk_client = None
ElasticSearch_init(cls, a) ==
    [cls |-> cls, a |-> a,
     elasticsearch_url |->
         ElasticSearch_url(a.protocol, a.elk_hostname, a.elasticsearch_port),
     elk_client |-> NoClient]

\* ElasticSearchOnPremConnection(...) / ElasticSearchCloudConnection(...)
ElasticSearchConnection_init(cls, a) ==
    [cls |-> cls, a |-> a,
     elasticsearch_url |->
         ElasticSearchConnection_url(a.protocol, a.elk_hostname, a.elasticsearch_port),
     elk_client |-> NoClient]

\* the client object one attempt of connect_to_elasticsearch creates
new_client(o) ==
    IF o.cls = "ElasticSearchOnPrem"
    THEN IF Truthy(o.a.username) /\ Truthy(o.a.password)
         THEN [target |-> o.elasticsearch_url, auth |-> TRUE, timeout |-> 60,
               ping |-> "none"]
         ELSE [target |-> o.elasticsearch_url, auth |-> FALSE, timeout |-> 20,
               ping |-> "none"]
    ELSE [target |-> o.a.elk_hostname, auth |-> TRUE, timeout |-> 0, ping |-> "none"]

\* faulty variant: the failed ping is logged but nothing is raised
never_raise(alive) == "return"

\* "if self.elk_client.ping(): ... else: raise Exception(...)"
after_ping(alive) == IF alive THEN "return" ELSE "raise"

\* faulty variant of the stop test: one attempt too many
stop_after_next_attempt(n) == n > StopMaxAttemptNumber

\* retry(stop_max_attempt_number=3): no attempt follows attempt number n
should_stop(n) == n >= StopMaxAttemptNumber

Attempt(alive) == [ev |-> "attempt", ping |-> alive, ms |-> 0]
Wait(ms) == [ev |-> "wait", ping |-> FALSE, ms |-> ms]

InitConn ==
    /\ es = NoObject
    /\ conn = NoObject
    /\ cpc = "idle"
    /\ attempt_number = 0
    /\ ctrace = <<>>
    /\ nconnects = 0

NewElasticSearch ==
    /\ es = NoObject
    /\ \E cls \in {"ElasticSearchOnPrem", "ElasticSearchCloud"}, a \in CtorArgs :
         es' = ElasticSearch_init(cls, a)
    /\ UNCHANGED <<conn, cpc, attempt_number, ctrace, nconnects>>
    /\ UNCHANGED <<loadVars, idxVars>>

NewElasticSearchConnection ==
    /\ conn = NoObject
    /\ \E cls \in {"ElasticSearchOnPremConnection", "ElasticSearchCloudConnection"},
          a \in CtorArgs :
         conn' = ElasticSearchConnection_init(cls, a)
    /\ UNCHANGED <<es, cpc, attempt_number, ctrace, nconnects>>
    /\ UNCHANGED <<loadVars, idxVars>>

\* the caller calls es.connect_to_elasticsearch(): the decorator's first attempt
CallConnect ==
    /\ es # NoObject
    /\ cpc \in {"idle", "returned", "raised"}
    /\ nconnects < MaxConnects
    /\ cpc' = "attempt"
    /\ attempt_number' = 1
    /\ ctrace' = <<>>
    /\ nconnects' = nconnects + 1
    /\ UNCHANGED <<es, conn>>
    /\ UNCHANGED <<loadVars, idxVars>>

\* one attempt: the body of connect_to_elasticsearch, then the decorator's
\* decision to return, to raise or to wait
ConnectAttempt ==
    /\ cpc = "attempt"
    /\ \E alive \in BOOLEAN :
         /\ es' = [es EXCEPT !.elk_client =
                      [new_client(es) EXCEPT !.ping = IF alive THEN "ok" ELSE "failed"]]
         /\ ctrace' = Append(ctrace, Attempt(alive))
         /\ cpc' = IF after_ping(alive) = "return" THEN "returned"
                   ELSE IF should_stop(attempt_number) THEN "raised"
                   ELSE "wait"
    /\ UNCHANGED <<conn, attempt_number, nconnects>>
    /\ UNCHANGED <<loadVars, idxVars>>

\* the decorator sleeps wait_fixed milliseconds, then starts the next attempt
ConnectWait ==
    /\ cpc = "wait"
    /\ ctrace' = Append(ctrace, Wait(WaitFixed))
    /\ attempt_number' = attempt_number + 1
    /\ cpc' = "attempt"
    /\ UNCHANGED <<es, conn, nconnects>>
    /\ UNCHANGED <<loadVars, idxVars>>

\* --------------------------------------------------------- specifications
\* the bulk document loader
Init == InitLoad /\ InitIdx /\ cluster = {} /\ InitConn
Next ==
    \/ CallAddBasicInfo
    \/ CallAddListValuesAsStr
    \/ CallFillListOfDocs
    \/ CallSetListOfDocs
    \/ CallFillElkIndexAsBulk
    \/ BulkRow
    \/ BulkRowsDone
    \/ BulkChunk
    \/ BulkSleep
Spec == Init /\ [][Next]_vars

\* index management
InitIndex == InitLoad /\ InitIdx /\ InitConn
NextIndex ==
    \/ CallCheckIfIndexExists
    \/ CallDeleteIndex
    \/ CallCheckIfIndexExistsAndDeleteIfExists
    \/ OtherClientCreatesIndex
SpecIndex == InitIndex /\ [][NextIndex]_vars

\* the connection classes
InitConnection == InitLoad /\ InitIdx /\ cluster = {} /\ InitConn
NextConnection ==
    \/ NewElasticSearch
    \/ NewElasticSearchConnection
    \/ CallConnect
    \/ ConnectAttempt
    \/ ConnectWait
SpecConnection == InitConnection /\ [][NextConnection]_vars

\* ------------------------------------------------------------ the claims
\* the content of the document a Bulk Request Item holds
Source(item) == heap[item.source]

\* a fill_elk_index_as_bulk call is running or was the last call
InBulk == last_op = "fill_elk_index_as_bulk"
BulkReturned == InBulk /\ pc = "idle" /\ result = "returned"

Submissions == SelectSeq(trace, LAMBDA e : e.ev = "submit")
Sleeps == SelectSeq(trace, LAMBDA e : e.ev = "sleep")

RECURSIVE Concat(_)
Concat(events) ==
    IF events = <<>> THEN <<>> ELSE Head(events).chunk \o Concat(Tail(events))

CeilDiv(n, k) == (n + k - 1) \div k

\* C1: when fill_elk_index_as_bulk_chunk has run over a queue of N items with
\* chunk size K >= 1, set_list_of_docs was called ceil(N/K) times, every chunk
\* but the last has K items, the last has N mod K items (K when K divides N),
\* and the chunks in call order concatenate to the queue.
C1_Chunking ==
    BulkReturned =>
        LET N == Len(list_of_docs)
            K == args.chunk_size
            S == Submissions
        IN  /\ Len(S) = CeilDiv(N, K)
            /\ \A j \in 1..(Len(S) - 1) : Len(S[j].chunk) = K
            /\ N > 0 => Len(S[Len(S)].chunk) = (IF N % K = 0 THEN K ELSE N % K)
            /\ Concat(S) = list_of_docs

\* C1: a load of at least two items that returned after several submissions
C1_Witness ==
    /\ BulkReturned
    /\ Len(list_of_docs) >= 2
    /\ Len(Submissions) >= 2

\* a list whose items are str or None
IsStrOrNoneList(value) ==
    /\ value.t = "list"
    /\ \A i \in 1..Len(value.v) : value.v[i].t \in {"str", "NoneType"}

\* C2: for every record passed to fill_elk_index_as_bulk and every column c
\* whose value is a list of strings that may contain null entries, the queued
\* envelope holds under c the non-null elements and under c_str those elements
\* joined with ', ' in order.
C2_ListColumnsJoined ==
    InBulk =>
        \A i \in 1..Len(list_of_docs) :
            \A k \in 1..Len(args.data[i]) :
                LET c == args.data[i][k].col
                    value == args.data[i][k].val
                    d == Source(list_of_docs[i])
                IN  IsStrOrNoneList(value) =>
                        /\ (c \o "_str") \in DOMAIN d
                        /\ d[c \o "_str"] =
                               PyStr(Join(<<",", " ">>, FilterNotNone(value.v)))
                        /\ d[c] = PyList(FilterNotNone(value.v))

HasColumn(row, c) == \E k \in 1..Len(row) : row[k].col = c

\* C3 as stated: every queued envelope has doc_id, timestamp and date_str, and
\* has username if and only if the caller supplied a username argument.
C3_UsernameIffSupplied ==
    InBulk =>
        \A i \in 1..Len(list_of_docs) :
            LET d == Source(list_of_docs[i])
            IN  /\ {"doc_id", "timestamp", "date_str"} \subseteq DOMAIN d
                /\ ("username" \in DOMAIN d) <=> (args.username # None)

\* C3 amended: every queued envelope has doc_id, timestamp and date_str, and has
\* username if and only if the caller supplied a non-empty username argument
\* or the record itself has a column named username.
C3_UsernameIffNonEmptyOrColumn ==
    InBulk =>
        \A i \in 1..Len(list_of_docs) :
            LET d == Source(list_of_docs[i])
            IN  /\ {"doc_id", "timestamp", "date_str"} \subseteq DOMAIN d
                /\ ("username" \in DOMAIN d) <=>
                       (Truthy(args.username) \/ HasColumn(args.data[i], "username"))

\* C3: an envelope queued for a caller who passed username='' has no username
C3_Witness ==
    /\ InBulk
    /\ args.username = PyStr(<<>>)
    /\ \E i \in 1..Len(list_of_docs) : "username" \notin DOMAIN Source(list_of_docs[i])

\* the envelope of one record, built from an empty document
Envelope(a, row) ==
    copy_row(add_basic_info(EmptyDict, a.doc_id, a.timestamp, a.date_and_time,
                            a.username),
             row)

\* the items of list keep their place, index name and content in the next state
Kept(list, list2) ==
    \A i \in 1..Len(list) :
        /\ i <= Len(list2)
        /\ list2[i].index = list[i].index
        /\ heap'[list2[i].source] = heap[list[i].source]

\* the queue of fill_elk_index_as_bulk holds one item per processed record, in
\* record order, for the given index, with the envelope of that record alone
QueueOfOwnEnvelopes ==
    InBulk =>
        /\ Len(list_of_docs) = row_i
        /\ pc # "rows" => row_i = Len(args.data)
        /\ \A i \in 1..Len(list_of_docs) :
               /\ list_of_docs[i].index = args.doc_index_name
               /\ Source(list_of_docs[i]) = Envelope(args, args.data[i])

\* C5: after fill_elk_index_as_bulk has processed records r1..rn the queue
\* holds n items in record order, each for the given index and with the
\* envelope built from its own record alone; and no later reset, refill or
\* other mutation of self.doc changes an item that is already queued (in the
\* loader's queue or in a list the caller filled with fill_list_of_docs).
C5_DeepCopyIsolation ==
    [][/\ Kept(caller_list, caller_list')
       /\ ~(pc = "idle" /\ pc' = "rows") => Kept(list_of_docs, list_of_docs')
       /\ QueueOfOwnEnvelopes']_vars

\* C5: the working document was changed after a copy of it was queued, and the
\* queued item no longer equals it
C5_Witness ==
    /\ last_op = "add_basic_info"
    /\ Len(caller_list) >= 1
    /\ Source(caller_list[1]) # heap[self_doc]

\* C7: a per-document failure is never propagated: set_list_of_docs returns
\* normally in streaming and in synchronous mode whatever the cluster rejects,
\* and fill_elk_index_as_bulk submits every chunk and returns normally.
C7_FailureNeverPropagated ==
    /\ result # "raised"
    /\ BulkReturned => Concat(Submissions) = list_of_docs

\* C8: every chunk submission is followed by one pause before the next chunk is
\* submitted: the trace of a load of N items in chunks of K is submit, pause,
\* submit, pause, ... with exactly ceil(N/K) pauses.
C8_PauseAfterEachChunk ==
    BulkReturned =>
        /\ Len(Sleeps) = CeilDiv(Len(list_of_docs), args.chunk_size)
        /\ Len(trace) = 2 * Len(Sleeps)
        /\ \A j \in 1..Len(trace) :
               trace[j].ev = (IF j % 2 = 1 THEN "submit" ELSE "sleep")

DeletesIssued == SelectSeq(issued, LAMBDA call : call.api = "delete")

\* C4: check_if_index_exists_and_delete_if_exists(index) returns true and
\* issues exactly one delete call, for that index, when the existence check
\* reports the index present; it returns false and issues no delete call when
\* the check reports it absent; no other index is deleted in either case.
C4_DeleteIfExists ==
    idx_op.name = "check_if_index_exists_and_delete_if_exists" =>
        LET index == idx_op.index
            present == index \in cluster_before
        IN  /\ issued[1] = Exists(index)
            /\ idx_result = (IF present THEN "true" ELSE "false")
            /\ DeletesIssued = (IF present THEN <<Delete(index)>> ELSE <<>>)
            /\ cluster = cluster_before \ {index}

\* C4: the helper found the index, deleted it and returned true, with another
\* index left in place
C4_Witness ==
    /\ idx_op.name = "check_if_index_exists_and_delete_if_exists"
    /\ idx_result = "true"
    /\ idx_op.index \in cluster_before
    /\ idx_op.index \notin cluster
    /\ cluster # {}

ConnectAttempts == SelectSeq(ctrace, LAMBDA e : e.ev = "attempt")

\* C6: connect_to_elasticsearch makes at most 3 attempts, returns at the first
\* attempt whose ping succeeds without a further attempt, waits the fixed
\* interval between consecutive attempts, and raises exactly when all 3
\* attempts have failed.
C6_BoundedRetry ==
    LET A == ConnectAttempts
        allFailed == \A j \in 1..Len(A) : ~A[j].ping
    IN  /\ Len(A) <= 3
        /\ \A j \in 1..Len(ctrace) :
               IF j % 2 = 1 THEN ctrace[j].ev = "attempt"
               ELSE ctrace[j].ev = "wait" /\ ctrace[j].ms = 180000
        /\ \A j \in 1..(Len(A) - 1) : ~A[j].ping
        /\ cpc = "returned" => ctrace[Len(ctrace)] = Attempt(TRUE)
        /\ cpc = "raised" <=> (Len(A) = 3 /\ allFailed /\ Len(ctrace) = 5)

\* C6: the third attempt failed after two waits, and the call raised
C6_Witness ==
    /\ cpc = "raised"
    /\ ctrace = <<Attempt(FALSE), Wait(180000), Attempt(FALSE), Wait(180000),
                  Attempt(FALSE)>>

\* C9 as stated: after connect_to_elasticsearch finishes, either it returned and
\* elk_client passed the ping, or it raised and elk_client is still None.
C9_NoPartialSuccess ==
    /\ cpc = "returned" => es.elk_client.ping = "ok"
    /\ cpc = "raised" => es.elk_client = NoClient

\* C9 amended: after connect_to_elasticsearch finishes, either it returned and
\* elk_client is the handle whose ping succeeded, or it raised after three
\* failed pings and elk_client holds the client the last attempt created, whose
\* ping failed: it is not None.
C9_ReturnedMeansPinged ==
    /\ cpc = "returned" => es.elk_client.ping = "ok"
    /\ cpc = "raised" =>
           /\ es.elk_client # NoClient
           /\ es.elk_client = [new_client(es) EXCEPT !.ping = "failed"]

\* C9: the call raised and left a client that failed its ping in elk_client
C9_Witness ==
    /\ cpc = "raised"
    /\ es.elk_client.ping = "failed"

\* C10: for the same protocol, hostname and port both class definitions build
\* the same base URL: protocol://host:port when a port is supplied and
\* protocol://host when none is.
C10_SameUrl ==
    (es # NoObject /\ conn # NoObject /\ es.a = conn.a) =>
        /\ es.elasticsearch_url = conn.elasticsearch_url
        /\ conn.elasticsearch_url =
               (IF conn.a.elasticsearch_port = None
                THEN conn.a.protocol \o "://" \o conn.a.elk_hostname
                ELSE conn.a.protocol \o "://" \o conn.a.elk_hostname \o ":"
                         \o ToString(conn.a.elasticsearch_port.v))

=============================================================================
